------------------------------ MODULE Spec2Model ------------------------------
(***************************************************************************)
(* Workflow engine of the SafeHands backend: SimpleSwiggyAgent (one        *)
(* process_request per user turn), the state managers that keep the        *)
(* workflow state and the pending interruption of every session, and the   *)
(* management endpoints of app/main.py; beside them the WebSocket          *)
(* ConnectionManager and the local cache of CacheManager.                  *)
(*                                                                         *)
(* The repository ships two managers with the same methods:                *)
(* InMemoryStateManager (two dicts) and WorkflowStateManager (Redis keys   *)
(* holding JSON).  state_manager says which one is behind the calls.       *)
(***************************************************************************)
EXTENDS Integers, Sequences, FiniteSets, Bags, TLC

VARIABLES
    state_manager,    \* which manager class serves the store calls
    heap,             \* Python list objects holding step texts, by identity
    swiggy_steps,     \* SimpleSwiggyAgent.swiggy_steps: identity of the catalog list
    workflow_states,  \* session id -> stored workflow state (dict / "workflow:" keys)
    interruptions,    \* session id -> stored interruption ("interruption:" keys)
    tasks,            \* the bag of calls in flight, each waiting at one of its awaits
    last,             \* the call that returned last, with what it returned
    active_connections,     \* ConnectionManager: session id -> WebSocket
    connection_to_session,  \* ConnectionManager: WebSocket -> session id
    heartbeat_connections,  \* ConnectionManager: the WebSockets that get heartbeats
    local_cache             \* CacheManager.local_cache: its keys, oldest insertion first

\* the fields of the WebSocket ConnectionManager
connection_vars == <<active_connections, connection_to_session, heartbeat_connections>>

vars == <<state_manager, heap, swiggy_steps, workflow_states, interruptions, tasks, last,
          connection_vars, local_cache>>

-----------------------------------------------------------------------------
(* Bounds of the model *)

\* number of calls that may be in flight at once
MaxTasks == 2

\* number of edits made to the step catalog after construction
MaxMutations == 1

\* CacheManager.max_local_cache_size: 1000 in the source; the model fills a
\* local cache of this size and keeps the rule of _set_local_cache, which
\* evicts max_local_cache_size // 10 keys
max_local_cache_size == 20

Sessions == {"s1"}

\* user texts fed to process_request
Inputs ==
    { "I want to order food from Swiggy",
      "done",
      "how do I search for a restaurant?",
      "ok, how do I do this?",
      "hello",
      "how do I order food",
      "ok, how do I order food" }

Managers == {"InMemoryStateManager", "WorkflowStateManager"}

\* Python's None
None == [none |-> TRUE]

-----------------------------------------------------------------------------
(* Text.  A user text is the sequence of its characters. *)

Chars ==
    [ u \in Inputs |->
        CASE u = "I want to order food from Swiggy" -> <<"I", " ", "w", "a", "n", "t", " ", "t", "o", " ", "o", "r", "d", "e", "r", " ", "f", "o", "o", "d", " ", "f", "r", "o", "m", " ", "S", "w", "i", "g", "g", "y">>
          [] u = "done" -> <<"d", "o", "n", "e">>
          [] u = "how do I search for a restaurant?" -> <<"h", "o", "w", " ", "d", "o", " ", "I", " ", "s", "e", "a", "r", "c", "h", " ", "f", "o", "r", " ", "a", " ", "r", "e", "s", "t", "a", "u", "r", "a", "n", "t", "?">>
          [] u = "ok, how do I do this?" -> <<"o", "k", ",", " ", "h", "o", "w", " ", "d", "o", " ", "I", " ", "d", "o", " ", "t", "h", "i", "s", "?">>
          [] u = "hello" -> <<"h", "e", "l", "l", "o">>
          [] u = "how do I order food" -> <<"h", "o", "w", " ", "d", "o", " ", "I", " ", "o", "r", "d", "e", "r", " ", "f", "o", "o", "d">>
          [] u = "ok, how do I order food" -> <<"o", "k", ",", " ", "h", "o", "w", " ", "d", "o", " ", "I", " ", "o", "r", "d", "e", "r", " ", "f", "o", "o", "d">> ]

Upper == <<"A", "B", "C", "D", "E", "F", "G", "H", "I", "J", "K", "L", "M", "N", "O", "P", "Q", "R", "S", "T", "U", "V", "W", "X", "Y", "Z">>

Lower == <<"a", "b", "c", "d", "e", "f", "g", "h", "i", "j", "k", "l", "m", "n", "o", "p", "q", "r", "s", "t", "u", "v", "w", "x", "y", "z">>

\* str.lower() on one character
LowerChar(c) ==
    IF \E i \in 1..Len(Upper) : Upper[i] = c
    THEN Lower[CHOOSE i \in 1..Len(Upper) : Upper[i] = c]
    ELSE c

\* str.lower()
lower(t) == [i \in 1..Len(t) |-> LowerChar(t[i])]

\* str.strip(): drop leading and trailing blanks
strip(t) ==
    LET keep == {i \in 1..Len(t) : t[i] # " "}
    IN  IF keep = {} THEN <<>>
        ELSE LET lo == CHOOSE i \in keep : \A j \in keep : i <= j
                 hi == CHOOSE i \in keep : \A j \in keep : j <= i
             IN  SubSeq(t, lo, hi)

\* Python's  keyword in text  on strings
Contains(t, k) ==
    \E i \in 0..(Len(t) - Len(k)) : SubSeq(t, i + 1, i + Len(k)) = k

swiggy_keywords ==
    { <<"s", "w", "i", "g", "g", "y">>,
      <<"o", "r", "d", "e", "r", " ", "f", "o", "o", "d">>,
      <<"o", "r", "d", "e", "r", " ", "f", "r", "o", "m", " ", "s", "w", "i", "g", "g", "y">>,
      <<"f", "o", "o", "d", " ", "d", "e", "l", "i", "v", "e", "r", "y">>,
      <<"s", "w", "i", "g", "g", "y", " ", "o", "r", "d", "e", "r">> }

verification_responses ==
    { <<"d", "o", "n", "e">>,
      <<"n", "e", "x", "t">>,
      <<"c", "o", "m", "p", "l", "e", "t", "e", "d">>,
      <<"f", "i", "n", "i", "s", "h", "e", "d">>,
      <<"y", "e", "s">>,
      <<"o", "k">>,
      <<"r", "e", "a", "d", "y">>,
      <<"c", "o", "n", "t", "i", "n", "u", "e">> }

interruption_keywords ==
    { <<"h", "o", "w">>,
      <<"w", "h", "a", "t">>,
      <<"w", "h", "e", "r", "e">>,
      <<"w", "h", "y">>,
      <<"w", "h", "e", "n">>,
      <<"w", "h", "i", "c", "h">>,
      <<"c", "a", "n", " ", "y", "o", "u">>,
      <<"c", "o", "u", "l", "d", " ", "y", "o", "u">>,
      <<"h", "e", "l", "p">>,
      <<"e", "x", "p", "l", "a", "i", "n">>,
      <<"s", "h", "o", "w">>,
      <<"t", "e", "l", "l", " ", "m", "e">>,
      <<"i", " ", "d", "o", "n", "'", "t", " ", "u", "n", "d", "e", "r", "s", "t", "a", "n", "d">>,
      <<"c", "o", "n", "f", "u", "s", "e", "d">>,
      <<"s", "t", "u", "c", "k">>,
      <<"p", "r", "o", "b", "l", "e", "m">>,
      <<"e", "r", "r", "o", "r">>,
      <<"n", "o", "t", " ", "w", "o", "r", "k", "i", "n", "g">>,
      <<"c", "a", "n", "'", "t", " ", "f", "i", "n", "d">>,
      <<"d", "i", "f", "f", "i", "c", "u", "l", "t">> }

is_swiggy_request(user_input) ==
    LET user_lower == lower(Chars[user_input])
    IN  \E keyword \in swiggy_keywords : Contains(user_lower, keyword)

\* _is_verification_response comparing the whole text with the tokens
is_verification_response_exact(user_input) ==
    LET user_lower == strip(lower(Chars[user_input]))
    IN  user_lower \in verification_responses

is_verification_response(user_input) ==
    LET user_lower == strip(lower(Chars[user_input]))
    IN  \E response \in verification_responses : Contains(user_lower, response)

\* the second half of _is_interruption: the search for a keyword
has_interruption_keyword(user_input) ==
    LET user_lower == lower(Chars[user_input])
    IN  \E keyword \in interruption_keywords : Contains(user_lower, keyword)

is_interruption(user_input) ==
    IF is_verification_response(user_input) THEN FALSE
    ELSE has_interruption_keyword(user_input)

\* the three predicates of every input, computed once
Verifies == [u \in Inputs |-> is_verification_response(u)]
Interrupts == [u \in Inputs |-> is_interruption(u)]
Requests == [u \in Inputs |-> is_swiggy_request(u)]
Asks == [u \in Inputs |-> has_interruption_keyword(u)]

-----------------------------------------------------------------------------
(* The step catalog and the records the engine builds *)

\* the list built in SimpleSwiggyAgent.__init__
InitialSteps ==
    << "Open the Swiggy app on your phone",
       "Search for the food you want to order",
       "Select a restaurant from the results",
       "Choose the items you want to order",
       "Add items to your cart",
       "Review your order and proceed to checkout",
       "Enter your delivery address",
       "Select payment method and place order" >>

\* list objects: 0 is the one built by __init__, the others are built by
\* later assignments to swiggy_steps
ListIds == 0..MaxMutations

\* the workflow_steps entry of a state dict is a list object (shared with
\* whoever else holds it) or, once it went through JSON, a list of its own
StepsOf(state, hp) ==
    IF "ref" \in DOMAIN state.workflow_steps
    THEN hp[state.workflow_steps.ref]
    ELSE state.workflow_steps.val

\* AssistantResponse(session_id, response_type, content, ui_element=None, next_step=None)
AssistantResponse(session_id, response_type, content) ==
    [session_id |-> session_id, response_type |-> response_type, content |-> content]

\* f"Step {k} of {n}: {text}\n\nLet me know when you've completed this step ..."
StepContent(k, n, text) == [form |-> "step", k |-> k, n |-> n, text |-> text]

\* "I can help you order food from Swiggy! Just say ... to get started."
StartGuidance == [form |-> "how_to_start"]

\* "I'm here to help you with your Swiggy order. Say 'done' when you complete a step, ..."
DefaultGuidance == [form |-> "say_done_or_ask"]

\* "Excellent! You've completed all the steps successfully! ..."
CompletionContent == [form |-> "completed"]

\* the text returned by the language model, stripped
GeneratedContent == [form |-> "generated"]

\* f"I understand you have a question about: '{user_input}'\n\nYou're currently on Step {k}: {text} ..."
FallbackContent(user_input, k, text) ==
    [form |-> "fallback", user_input |-> user_input, k |-> k, text |-> text]

\* f"I'm sorry, I encountered an error: {error_message}. Please try again."
ErrorContent(error_message) == [form |-> "error", error_message |-> error_message]

\* an exception leaving a handler instead of a reply
Raise(exception) == [raised |-> exception]

IsRaised(reply) == "raised" \in DOMAIN reply

\* what a turn asks of the store, and the reply it returns (or the exception
\* it raises)
Effect(write, state, data, reply) ==
    [write |-> write, state |-> state, data |-> data, reply |-> reply]

-----------------------------------------------------------------------------
(* SimpleSwiggyAgent *)

\* _start_new_workflow with the new state placed on the second step
start_new_workflow_index_one(session_id, user_input, cat, hp) ==
    IF ~Requests[user_input]
    THEN Effect("none", None, None,
                AssistantResponse(session_id, "instruction", StartGuidance))
    ELSE LET workflow_state ==
                 [ session_id |-> session_id,
                   user_input |-> user_input,
                   workflow_type |-> "swiggy_order_food",
                   workflow_steps |-> [ref |-> cat],
                   current_step_index |-> 1,
                   workflow_status |-> "active",
                   waiting_for_verification |-> TRUE,
                   workflow_context |-> <<>>,
                   interruption_handled |-> FALSE ]
         IN  Effect("save", workflow_state, None,
                    AssistantResponse(session_id, "instruction",
                        StepContent(1, Len(hp[cat]), hp[cat][1])))

\* _start_new_workflow without the test of the text
start_new_workflow_any_text(session_id, user_input, cat, hp) ==
    LET workflow_state ==
            [ session_id |-> session_id,
              user_input |-> user_input,
              workflow_type |-> "swiggy_order_food",
              workflow_steps |-> [ref |-> cat],
              current_step_index |-> 0,
              workflow_status |-> "active",
              waiting_for_verification |-> TRUE,
              workflow_context |-> <<>>,
              interruption_handled |-> FALSE ]
    IN  Effect("save", workflow_state, None,
               AssistantResponse(session_id, "instruction",
                   StepContent(1, Len(hp[cat]), hp[cat][1])))

\* _start_new_workflow: cat is the identity of self.swiggy_steps
start_new_workflow(session_id, user_input, cat, hp) ==
    IF ~Requests[user_input]
    THEN Effect("none", None, None,
                AssistantResponse(session_id, "instruction", StartGuidance))
    ELSE LET workflow_state ==
                 [ session_id |-> session_id,
                   user_input |-> user_input,
                   workflow_type |-> "swiggy_order_food",
                   workflow_steps |-> [ref |-> cat],
                   current_step_index |-> 0,
                   workflow_status |-> "active",
                   waiting_for_verification |-> TRUE,
                   workflow_context |-> <<>>,
                   interruption_handled |-> FALSE ]
         IN  Effect("save", workflow_state, None,
                    AssistantResponse(session_id, "instruction",
                        StepContent(1, Len(hp[cat]), hp[cat][1])))

\* _handle_step_verification advancing by two
handle_step_verification_skip(session_id, user_input, state, hp) ==
    LET current_step_index == state.current_step_index
        workflow_steps == StepsOf(state, hp)
        next_step_index == current_step_index + 2
    IN  IF next_step_index >= Len(workflow_steps)
        THEN Effect("delete", None, None,
                    AssistantResponse(session_id, "instruction", CompletionContent))
        ELSE Effect("save",
                    [state EXCEPT !.current_step_index = next_step_index,
                                  !.workflow_status = "active",
                                  !.waiting_for_verification = TRUE],
                    None,
                    AssistantResponse(session_id, "instruction",
                        StepContent(next_step_index + 1, Len(workflow_steps),
                                    workflow_steps[next_step_index + 1])))

\* _handle_step_verification completing one confirmation early
handle_step_verification_early(session_id, user_input, state, hp) ==
    LET current_step_index == state.current_step_index
        workflow_steps == StepsOf(state, hp)
        next_step_index == current_step_index + 1
    IN  IF next_step_index + 1 >= Len(workflow_steps)
        THEN Effect("delete", None, None,
                    AssistantResponse(session_id, "instruction", CompletionContent))
        ELSE Effect("save",
                    [state EXCEPT !.current_step_index = next_step_index,
                                  !.workflow_status = "active",
                                  !.waiting_for_verification = TRUE],
                    None,
                    AssistantResponse(session_id, "instruction",
                        StepContent(next_step_index + 1, Len(workflow_steps),
                                    workflow_steps[next_step_index + 1])))

\* _handle_step_verification keeping the finished workflow in the store
handle_step_verification_store_completed(session_id, user_input, state, hp) ==
    LET current_step_index == state.current_step_index
        workflow_steps == StepsOf(state, hp)
        next_step_index == current_step_index + 1
    IN  IF state.workflow_steps = None
        THEN Effect("none", None, None, Raise("TypeError"))
        ELSE IF next_step_index >= Len(workflow_steps)
        THEN Effect("save",
                    [state EXCEPT !.current_step_index = next_step_index,
                                  !.workflow_status = "completed",
                                  !.waiting_for_verification = FALSE],
                    None,
                    AssistantResponse(session_id, "instruction", CompletionContent))
        ELSE Effect("save",
                    [state EXCEPT !.current_step_index = next_step_index,
                                  !.workflow_status = "active",
                                  !.waiting_for_verification = TRUE],
                    None,
                    AssistantResponse(session_id, "instruction",
                        StepContent(next_step_index + 1, Len(workflow_steps),
                                    workflow_steps[next_step_index + 1])))

\* _handle_step_verification (Python indexes from 0, sequences from 1);
\* len(workflow_steps) raises TypeError when the state holds None for its steps
handle_step_verification(session_id, user_input, state, hp) ==
    LET current_step_index == state.current_step_index
        workflow_steps == StepsOf(state, hp)
        next_step_index == current_step_index + 1
    IN  IF state.workflow_steps = None
        THEN Effect("none", None, None, Raise("TypeError"))
        ELSE IF next_step_index >= Len(workflow_steps)
        THEN Effect("delete", None, None,
                    AssistantResponse(session_id, "instruction", CompletionContent))
        ELSE Effect("save",
                    [state EXCEPT !.current_step_index = next_step_index,
                                  !.workflow_status = "active",
                                  !.waiting_for_verification = TRUE],
                    None,
                    AssistantResponse(session_id, "instruction",
                        StepContent(next_step_index + 1, Len(workflow_steps),
                                    workflow_steps[next_step_index + 1])))

\* _handle_interruption recording the step number shown to the user (from 1)
handle_interruption_one_based(session_id, user_input, state, hp) ==
    LET current_step_index == state.current_step_index
        workflow_steps == StepsOf(state, hp)
        current_step == IF current_step_index < Len(workflow_steps)
                        THEN workflow_steps[current_step_index + 1]
                        ELSE "Unknown"
        interruption_data ==
            [ type |-> "workflow_interruption",
              user_input |-> user_input,
              workflow_type |-> "swiggy_order_food",
              current_step_index |-> current_step_index + 1,
              current_step |-> current_step,
              total_steps |-> Len(workflow_steps),
              workflow_status |-> state.workflow_status ]
    IN  IF state.workflow_steps = None
        THEN Effect("none", None, None, Raise("TypeError"))
        ELSE Effect("interruption", None, interruption_data,
                 AssistantResponse(session_id, "instruction",
                     FallbackContent(user_input, current_step_index + 1, current_step)))

\* _handle_interruption saving the workflow state with interruption_handled
\* set instead of leaving it alone
handle_interruption_saves_state(session_id, user_input, state, hp) ==
    LET current_step_index == state.current_step_index
        workflow_steps == StepsOf(state, hp)
        current_step == IF current_step_index < Len(workflow_steps)
                        THEN workflow_steps[current_step_index + 1]
                        ELSE "Unknown"
    IN  IF state.workflow_steps = None
        THEN Effect("none", None, None, Raise("TypeError"))
        ELSE Effect("save", [state EXCEPT !.interruption_handled = TRUE], None,
                 AssistantResponse(session_id, "instruction",
                     FallbackContent(user_input, current_step_index + 1, current_step)))

\* _handle_interruption up to the call of the language model; the reply of
\* the effect is the fallback used when that call raises.  With None for the
\* steps len(workflow_steps) raises TypeError before anything is saved.
handle_interruption(session_id, user_input, state, hp) ==
    LET current_step_index == state.current_step_index
        workflow_steps == StepsOf(state, hp)
        current_step == IF current_step_index < Len(workflow_steps)
                        THEN workflow_steps[current_step_index + 1]
                        ELSE "Unknown"
        interruption_data ==
            [ type |-> "workflow_interruption",
              user_input |-> user_input,
              workflow_type |-> "swiggy_order_food",
              current_step_index |-> current_step_index,
              current_step |-> current_step,
              total_steps |-> Len(workflow_steps),
              workflow_status |-> state.workflow_status ]
    IN  IF state.workflow_steps = None
        THEN Effect("none", None, None, Raise("TypeError"))
        ELSE Effect("interruption", None, interruption_data,
                 AssistantResponse(session_id, "instruction",
                     FallbackContent(user_input, current_step_index + 1, current_step)))

\* _handle_existing_workflow handing every other text to _start_new_workflow
handle_existing_workflow_no_default(session_id, user_input, state, cat, hp) ==
    IF Verifies[user_input]
    THEN handle_step_verification(session_id, user_input, state, hp)
    ELSE IF Interrupts[user_input]
    THEN handle_interruption(session_id, user_input, state, hp)
    ELSE start_new_workflow(session_id, user_input, cat, hp)

\* _handle_existing_workflow
handle_existing_workflow(session_id, user_input, state, cat, hp) ==
    IF Verifies[user_input]
    THEN handle_step_verification(session_id, user_input, state, hp)
    ELSE IF Interrupts[user_input]
    THEN handle_interruption(session_id, user_input, state, hp)
    ELSE IF Requests[user_input]
    THEN start_new_workflow(session_id, user_input, cat, hp)
    ELSE Effect("none", None, None,
                AssistantResponse(session_id, "instruction", DefaultGuidance))

\* process_request trying the digression test before it starts a workflow
process_loaded_digression_first(session_id, user_input, existing_state, cat, hp) ==
    IF existing_state # None
    THEN handle_existing_workflow(session_id, user_input, existing_state, cat, hp)
    ELSE IF Asks[user_input]
    THEN Effect("none", None, None,
                AssistantResponse(session_id, "instruction", StartGuidance))
    ELSE start_new_workflow(session_id, user_input, cat, hp)

\* the body of process_request once load_workflow_state has returned
process_loaded(session_id, user_input, existing_state, cat, hp) ==
    IF existing_state # None
    THEN handle_existing_workflow(session_id, user_input, existing_state, cat, hp)
    ELSE start_new_workflow(session_id, user_input, cat, hp)

\* _generate_interruption_response returned a text, or raised (no client, a
\* failed request, an empty completion).  The language model is outside the
\* repository; a text it returns is taken to hold a non-blank character.
LlmOutcomes == {"text", "raise"}

\* the end of _handle_interruption with the failure of the language model
\* answered by an error reply
interruption_reply_error(session_id, outcome, fallback) ==
    IF outcome = "text"
    THEN AssistantResponse(session_id, "instruction", GeneratedContent)
    ELSE AssistantResponse(session_id, "error", ErrorContent("generation failed"))

\* the end of _handle_interruption
interruption_reply(session_id, outcome, fallback) ==
    IF outcome = "text"
    THEN AssistantResponse(session_id, "instruction", GeneratedContent)
    ELSE fallback

\* _get_error_response
get_error_response(session_id, error_message) ==
    AssistantResponse(session_id, "error", ErrorContent(error_message))

\* process_request letting the exception of a handler through to its caller
process_request_reraise(session_id, reply) == reply

\* the try/except of process_request: what the caller gets when the handler
\* returned reply or raised
process_request_return(session_id, reply) ==
    IF IsRaised(reply)
    THEN get_error_response(session_id, reply.raised)
    ELSE reply

\* what process_request returns for the effect of its handler and the
\* outcome of the call of the language model
turn_reply(session_id, eff, outcome) ==
    process_request_return(session_id,
        IF eff.write = "interruption"
        THEN interruption_reply(session_id, outcome, eff.reply)
        ELSE eff.reply)

-----------------------------------------------------------------------------
(* The state managers *)

\* d[k] = v on a dict
Put(d, k, v) == [x \in (DOMAIN d) \cup {k} |-> IF x = k THEN v ELSE d[x]]

\* del d[k]
Del(d, k) == [x \in (DOMAIN d) \ {k} |-> d[x]]

\* WorkflowStateManager.save_workflow_state: the JSON text written under
\* "workflow:<session_id>"; the list of steps is written out by value.  The
\* keys the workflow engine never sets (screen_context, intent, ...) are
\* written as null and saved_at as the time of the write; nothing reads them.
state_data(state, hp) ==
    [ session_id |-> state.session_id,
      user_input |-> state.user_input,
      workflow_type |-> state.workflow_type,
      workflow_steps |-> IF state.workflow_steps = None THEN None
                         ELSE [val |-> StepsOf(state, hp)],
      current_step_index |-> state.current_step_index,
      workflow_status |-> state.workflow_status,
      waiting_for_verification |-> state.waiting_for_verification,
      workflow_context |-> state.workflow_context,
      interruption_handled |-> state.interruption_handled ]

\* the keys of the workflow_state dict the agent builds and stores
StateFields ==
    { "session_id", "user_input", "workflow_type", "workflow_steps",
      "current_step_index", "workflow_status", "waiting_for_verification",
      "workflow_context", "interruption_handled" }

\* WorkflowStateManager.load_workflow_state: the dict rebuilt from the JSON text
state_from_json(state_dict) ==
    [ session_id |-> state_dict.session_id,
      user_input |-> state_dict.user_input,
      workflow_type |-> state_dict.workflow_type,
      workflow_steps |-> state_dict.workflow_steps,
      current_step_index |-> state_dict.current_step_index,
      workflow_status |-> state_dict.workflow_status,
      waiting_for_verification |-> state_dict.waiting_for_verification,
      workflow_context |-> state_dict.workflow_context,
      interruption_handled |-> state_dict.interruption_handled ]

\* seconds a "workflow:" key lives after a write (self.workflow_timeout)
workflow_timeout == 3600

\* seconds an "interruption:" key lives after a write
interruption_timeout == 300

\* SETEX key seconds value: the entry of a Redis key is the fields of its
\* JSON text and ttl, the seconds it has left to live
setex(seconds, value) == [ttl |-> seconds] @@ value

\* the value of a store entry, without the time to live of a Redis key
value_of(entry) == [field \in (DOMAIN entry) \ {"ttl"} |-> entry[field]]

\* save_workflow_state writing the step index alone into the entry
save_workflow_state_index_only(mgr, ws, session_id, state, hp) ==
    IF session_id \in DOMAIN ws
    THEN [ws EXCEPT ![session_id].current_step_index = state.current_step_index]
    ELSE Put(ws, session_id, [current_step_index |-> state.current_step_index])

\* save_workflow_state of either manager: the new contents of the store.
\* InMemoryStateManager keeps state.copy(), a copy of the dict that shares the
\* list of steps, stamped with last_updated (a clock reading that nothing
\* reads, left out); its entries have no time to live.
save_workflow_state(mgr, ws, session_id, state, hp) ==
    IF mgr = "InMemoryStateManager"
    THEN Put(ws, session_id, state)
    ELSE Put(ws, session_id, setex(workflow_timeout, state_data(state, hp)))

\* load_workflow_state of either manager
load_workflow_state(mgr, ws, session_id) ==
    IF session_id \notin DOMAIN ws THEN None
    ELSE IF mgr = "InMemoryStateManager" THEN ws[session_id]
    ELSE state_from_json(ws[session_id])

\* delete_workflow_state reporting success without removing the entry
delete_workflow_state_keep(ws, session_id) ==
    [store |-> ws, result |-> session_id \in DOMAIN ws]

\* delete_workflow_state reporting success whether or not there was an entry
delete_workflow_state_always_true(ws, session_id) ==
    IF session_id \in DOMAIN ws
    THEN [store |-> Del(ws, session_id), result |-> TRUE]
    ELSE [store |-> ws, result |-> TRUE]

\* delete_workflow_state emptying the whole store
delete_workflow_state_clears_all(ws, session_id) ==
    IF session_id \in DOMAIN ws
    THEN [store |-> [x \in {} |-> None], result |-> TRUE]
    ELSE [store |-> ws, result |-> FALSE]

\* delete_workflow_state of either manager: the store afterwards and the
\* value returned
delete_workflow_state(ws, session_id) ==
    IF session_id \in DOMAIN ws
    THEN [store |-> Del(ws, session_id), result |-> TRUE]
    ELSE [store |-> ws, result |-> FALSE]

\* the dict stored when escalated is set only if the caller left it out
interruption_record_setdefault(mgr, session_id, interruption_data) ==
    [ type |-> interruption_data.type,
      user_input |-> interruption_data.user_input,
      workflow_type |-> interruption_data.workflow_type,
      current_step_index |-> interruption_data.current_step_index,
      current_step |-> interruption_data.current_step,
      total_steps |-> interruption_data.total_steps,
      workflow_status |-> interruption_data.workflow_status,
      escalated |-> IF "escalated" \in DOMAIN interruption_data
                    THEN interruption_data.escalated ELSE FALSE ]

\* the dict save_interruption stores: interruption_data with escalated set
\* to False (and, on WorkflowStateManager, with the session id); the
\* timestamp is a clock reading, left out
interruption_record(mgr, session_id, interruption_data) ==
    IF mgr = "InMemoryStateManager"
    THEN [ type |-> interruption_data.type,
           user_input |-> interruption_data.user_input,
           workflow_type |-> interruption_data.workflow_type,
           current_step_index |-> interruption_data.current_step_index,
           current_step |-> interruption_data.current_step,
           total_steps |-> interruption_data.total_steps,
           workflow_status |-> interruption_data.workflow_status,
           escalated |-> FALSE ]
    ELSE [ type |-> interruption_data.type,
           user_input |-> interruption_data.user_input,
           workflow_type |-> interruption_data.workflow_type,
           current_step_index |-> interruption_data.current_step_index,
           current_step |-> interruption_data.current_step,
           total_steps |-> interruption_data.total_steps,
           workflow_status |-> interruption_data.workflow_status,
           session_id |-> session_id,
           escalated |-> FALSE ]

\* save_interruption that stores nothing
save_interruption_dropped(mgr, its, session_id, interruption_data) == its

\* save_interruption that keeps the record the session already has
save_interruption_keep_first(mgr, its, session_id, interruption_data) ==
    IF session_id \in DOMAIN its THEN its
    ELSE IF mgr = "InMemoryStateManager"
    THEN Put(its, session_id, interruption_record(mgr, session_id, interruption_data))
    ELSE Put(its, session_id,
             setex(interruption_timeout,
                   interruption_record(mgr, session_id, interruption_data)))

\* save_interruption of either manager
save_interruption(mgr, its, session_id, interruption_data) ==
    IF mgr = "InMemoryStateManager"
    THEN Put(its, session_id, interruption_record(mgr, session_id, interruption_data))
    ELSE Put(its, session_id,
             setex(interruption_timeout,
                   interruption_record(mgr, session_id, interruption_data)))

\* get_interruption of either manager
get_interruption(its, session_id) ==
    IF session_id \notin DOMAIN its THEN None
    ELSE IF its[session_id].escalated THEN None
    ELSE value_of(its[session_id])

\* mark_interruption_escalated that sets the flag and keeps the entry
mark_interruption_escalated_flag_only(its, session_id) ==
    IF session_id \in DOMAIN its
    THEN [store |-> [its EXCEPT ![session_id].escalated = TRUE], result |-> TRUE]
    ELSE [store |-> its, result |-> FALSE]

\* InMemoryStateManager.mark_interruption_escalated: one step under the lock
mark_interruption_escalated(its, session_id) ==
    IF session_id \in DOMAIN its
    THEN [store |-> Del(its, session_id), result |-> TRUE]
    ELSE [store |-> its, result |-> FALSE]

\* WorkflowStateManager.mark_interruption_escalated, first command: GET
redis_mark_get(its, session_id) == session_id \in DOMAIN its

\* the DELETE of mark_interruption_escalated without the test of its result
redis_mark_delete_unchecked(its, session_id) ==
    [store |-> Del(its, session_id), result |-> TRUE]

\* WorkflowStateManager.mark_interruption_escalated, second command: DELETE,
\* with the value returned by the method (result > 0)
redis_mark_delete(its, session_id) ==
    IF session_id \in DOMAIN its
    THEN [store |-> Del(its, session_id), result |-> TRUE]
    ELSE [store |-> its, result |-> FALSE]

\* the store contents when deleting the workflow state also drops the
\* interruption record of the session
apply_effect_delete_drops_interruption(mgr, ws, its, session_id, eff, hp) ==
    CASE eff.write = "save" ->
            [ws |-> save_workflow_state(mgr, ws, session_id, eff.state, hp), its |-> its]
      [] eff.write = "delete" ->
            [ws |-> delete_workflow_state(ws, session_id).store,
             its |-> mark_interruption_escalated(its, session_id).store]
      [] eff.write = "interruption" ->
            [ws |-> ws, its |-> save_interruption(mgr, its, session_id, eff.data)]
      [] OTHER -> [ws |-> ws, its |-> its]

\* the store contents when the interruption is left to be saved after the
\* language model has answered
apply_effect_defers_interruption(mgr, ws, its, session_id, eff, hp) ==
    CASE eff.write = "save" ->
            [ws |-> save_workflow_state(mgr, ws, session_id, eff.state, hp), its |-> its]
      [] eff.write = "delete" ->
            [ws |-> delete_workflow_state(ws, session_id).store, its |-> its]
      [] OTHER -> [ws |-> ws, its |-> its]

\* the store contents after the write a turn asked for
apply_effect(mgr, ws, its, session_id, eff, hp) ==
    CASE eff.write = "save" ->
            [ws |-> save_workflow_state(mgr, ws, session_id, eff.state, hp), its |-> its]
      [] eff.write = "delete" ->
            [ws |-> delete_workflow_state(ws, session_id).store, its |-> its]
      [] eff.write = "interruption" ->
            [ws |-> ws, its |-> save_interruption(mgr, its, session_id, eff.data)]
      [] OTHER -> [ws |-> ws, its |-> its]

-----------------------------------------------------------------------------
(* State after construction *)

\* an empty dict
EmptyDict == [x \in {} |-> None]

Init ==
    /\ state_manager \in Managers
    /\ heap = [i \in ListIds |-> IF i = 0 THEN InitialSteps ELSE <<>>]
    /\ swiggy_steps = 0
    /\ workflow_states = EmptyDict
    /\ interruptions = EmptyDict
    /\ tasks = EmptyBag
    /\ last = [op |-> "none", session_id |-> "-", user_input |-> "-", result |-> None]
    /\ active_connections = EmptyDict
    /\ connection_to_session = EmptyDict
    /\ heartbeat_connections = {}
    /\ local_cache = <<>>

\* the record of a call that has returned
Returned(op, session_id, user_input, result) ==
    [op |-> op, session_id |-> session_id, user_input |-> user_input, result |-> result]

-----------------------------------------------------------------------------
(* Calls made one after the other: each runs from its first line to its return *)

\* SimpleSwiggyAgent.process_request
ProcessRequest(session_id, user_input, outcome) ==
    LET existing_state == load_workflow_state(state_manager, workflow_states, session_id)
        eff == process_loaded(session_id, user_input, existing_state, swiggy_steps, heap)
        after == apply_effect(state_manager, workflow_states, interruptions,
                              session_id, eff, heap)
        reply == turn_reply(session_id, eff, outcome)
    IN  /\ workflow_states' = after.ws
        /\ interruptions' = after.its
        /\ last' = Returned("process_request", session_id, user_input, reply)
        /\ UNCHANGED <<connection_vars, local_cache, state_manager, heap, swiggy_steps, tasks>>

\* the body GET /workflow/state/{session_id} answers with
workflow_state_view(workflow_state, hp) ==
    IF workflow_state = None THEN None
    ELSE IF workflow_state.workflow_steps = None
    THEN [status_code |-> 500]     \* len(None) raises: HTTPException
    ELSE [ workflow_type |-> workflow_state.workflow_type,
           workflow_status |-> workflow_state.workflow_status,
           current_step_index |-> workflow_state.current_step_index,
           total_steps |-> Len(StepsOf(workflow_state, hp)),
           waiting_for_verification |-> workflow_state.waiting_for_verification,
           workflow_steps |-> StepsOf(workflow_state, hp) ]

\* GET /workflow/state/{session_id}
GetWorkflowState(session_id) ==
    /\ last' = Returned("get_workflow_state", session_id, "-",
                  workflow_state_view(
                      load_workflow_state(state_manager, workflow_states, session_id), heap))
    /\ UNCHANGED <<connection_vars, local_cache, state_manager, heap, swiggy_steps, workflow_states, interruptions, tasks>>

\* GET /workflow/interruption/{session_id} removing the record it returns
GetInterruptionConsuming(session_id) ==
    /\ last' = Returned("get_interruption", session_id, "-",
                  get_interruption(interruptions, session_id))
    /\ interruptions' = mark_interruption_escalated(interruptions, session_id).store
    /\ UNCHANGED <<connection_vars, local_cache, state_manager, heap, swiggy_steps, workflow_states, tasks>>

\* GET /workflow/interruption/{session_id}
GetInterruption(session_id) ==
    /\ last' = Returned("get_interruption", session_id, "-",
                  get_interruption(interruptions, session_id))
    /\ UNCHANGED <<connection_vars, local_cache, state_manager, heap, swiggy_steps, workflow_states, interruptions, tasks>>

\* mark_interruption_escalated of either manager, run without another call
\* in between: the store afterwards and the value returned
mark_escalated(mgr, its, session_id) ==
    IF mgr = "InMemoryStateManager"
    THEN mark_interruption_escalated(its, session_id)
    ELSE IF ~redis_mark_get(its, session_id)
    THEN [store |-> its, result |-> FALSE]
    ELSE redis_mark_delete(its, session_id)

\* POST /workflow/interruption/{session_id}/escalated
MarkInterruptionEscalated(session_id) ==
    LET done == mark_escalated(state_manager, interruptions, session_id)
    IN  /\ interruptions' = done.store
        /\ last' = Returned("mark_interruption_escalated", session_id, "-", done.result)
        /\ UNCHANGED <<connection_vars, local_cache, state_manager, heap, swiggy_steps, workflow_states, tasks>>

\* DELETE /workflow/state/{session_id}
ClearWorkflowState(session_id) ==
    LET done == delete_workflow_state(workflow_states, session_id)
    IN  /\ workflow_states' = done.store
        /\ last' = Returned("clear_workflow_state", session_id, "-", done.result)
        /\ UNCHANGED <<connection_vars, local_cache, state_manager, heap, swiggy_steps, interruptions, tasks>>

Next ==
    \/ \E session_id \in Sessions, user_input \in Inputs, outcome \in LlmOutcomes :
           ProcessRequest(session_id, user_input, outcome)
    \/ \E session_id \in Sessions : GetWorkflowState(session_id)
    \/ \E session_id \in Sessions : GetInterruption(session_id)
    \/ \E session_id \in Sessions : MarkInterruptionEscalated(session_id)
    \/ \E session_id \in Sessions : ClearWorkflowState(session_id)

Spec == Init /\ [][Next]_vars

-----------------------------------------------------------------------------
(* Calls in flight together.  A coroutine gives way to the others only where *)
(* it waits for something: a Redis command or the language model.  The lock *)
(* of InMemoryStateManager is taken and released inside one store method and *)
(* no coroutine waits while holding it, so a call on that manager runs on to *)
(* the language model or to its return.                                      *)

\* a call that waits: pc says for what, loaded is what the call read before
\* it waited, fallback the reply it has prepared
Task(pc, op, session_id, user_input, loaded, fallback) ==
    [pc |-> pc, op |-> op, session_id |-> session_id, user_input |-> user_input,
     loaded |-> loaded, fallback |-> fallback]

\* the calls in flight once call task is replaced by more
Resume(task, more) == (tasks (-) SetToBag({task})) (+) more

\* a turn has made the write it asked for: it waits for the language model,
\* or it returns its reply; others are the other calls in flight
AfterWrite(others, session_id, user_input, eff) ==
    IF eff.write = "interruption"
    THEN /\ tasks' = others (+) SetToBag({
                Task("llm", "process_request", session_id, user_input, None, eff.reply)})
         /\ last' = last
    ELSE /\ tasks' = others
         /\ last' = Returned("process_request", session_id, user_input,
                        process_request_return(session_id, eff.reply))

\* process_request is called: on InMemoryStateManager it runs to the language
\* model or to its return; on WorkflowStateManager it runs through the GET of
\* load_workflow_state and, if it has something to write, waits to write it
StartTurn(session_id, user_input) ==
    /\ BagCardinality(tasks) < MaxTasks
    /\ LET existing_state == load_workflow_state(state_manager, workflow_states, session_id)
           eff == process_loaded(session_id, user_input, existing_state, swiggy_steps, heap)
           after == apply_effect(state_manager, workflow_states, interruptions,
                                 session_id, eff, heap)
       IN  IF state_manager = "InMemoryStateManager" \/ eff.write = "none"
           THEN /\ workflow_states' = after.ws
                /\ interruptions' = after.its
                /\ AfterWrite(tasks, session_id, user_input, eff)
           ELSE /\ tasks' = tasks (+) SetToBag({
                        Task("loaded", "process_request", session_id, user_input,
                             existing_state, None)})
                /\ UNCHANGED <<workflow_states, interruptions, last>>
    /\ UNCHANGED <<connection_vars, local_cache, state_manager, heap, swiggy_steps>>

\* a turn on WorkflowStateManager sends the command that writes what it
\* decided from the state it loaded (SETEX or DELETE)
WriteTurn(task) ==
    /\ task.pc = "loaded"
    /\ LET eff == process_loaded(task.session_id, task.user_input, task.loaded,
                                 swiggy_steps, heap)
           after == apply_effect(state_manager, workflow_states, interruptions,
                                 task.session_id, eff, heap)
       IN  /\ workflow_states' = after.ws
           /\ interruptions' = after.its
           /\ AfterWrite(Resume(task, EmptyBag), task.session_id, task.user_input, eff)
    /\ UNCHANGED <<connection_vars, local_cache, state_manager, heap, swiggy_steps>>

\* the language model answers, or the call raises, and the turn returns
LlmReturns(task, outcome) ==
    /\ task.pc \in {"llm", "overdue"}
    /\ tasks' = Resume(task, EmptyBag)
    /\ last' = Returned("process_request", task.session_id, task.user_input,
                   process_request_return(task.session_id,
                       interruption_reply(task.session_id, outcome, task.fallback)))
    /\ UNCHANGED <<connection_vars, local_cache, state_manager, heap, swiggy_steps, workflow_states, interruptions>>

\* mark_interruption_escalated is called: InMemoryStateManager does it in one
\* step; WorkflowStateManager sends GET, and returns False if it got no data
StartMark(session_id) ==
    /\ BagCardinality(tasks) < MaxTasks
    /\ IF state_manager = "InMemoryStateManager"
       THEN LET done == mark_interruption_escalated(interruptions, session_id)
            IN  /\ interruptions' = done.store
                /\ last' = Returned("mark_interruption_escalated", session_id, "-", done.result)
                /\ tasks' = tasks
       ELSE /\ interruptions' = interruptions
            /\ IF redis_mark_get(interruptions, session_id)
               THEN /\ tasks' = tasks (+) SetToBag({
                           Task("marking", "mark_interruption_escalated", session_id, "-",
                                None, None)})
                    /\ last' = last
               ELSE /\ tasks' = tasks
                    /\ last' = Returned("mark_interruption_escalated", session_id, "-", FALSE)
    /\ UNCHANGED <<connection_vars, local_cache, state_manager, heap, swiggy_steps, workflow_states>>

\* WorkflowStateManager.mark_interruption_escalated sends DELETE and returns
DeleteMark(task) ==
    /\ task.pc = "marking"
    /\ LET done == redis_mark_delete(interruptions, task.session_id)
       IN  /\ interruptions' = done.store
           /\ last' = Returned("mark_interruption_escalated", task.session_id, "-",
                          done.result)
    /\ tasks' = Resume(task, EmptyBag)
    /\ UNCHANGED <<connection_vars, local_cache, state_manager, heap, swiggy_steps, workflow_states>>

\* the texts of the turns that run together
ConcInputs ==
    { "I want to order food from Swiggy", "done", "how do I search for a restaurant?" }

NextConc ==
    \/ \E session_id \in Sessions, user_input \in ConcInputs :
           StartTurn(session_id, user_input)
    \/ \E task \in BagToSet(tasks) : WriteTurn(task)
    \/ \E task \in BagToSet(tasks), outcome \in LlmOutcomes : LlmReturns(task, outcome)
    \/ \E session_id \in Sessions : StartMark(session_id)
    \/ \E task \in BagToSet(tasks) : DeleteMark(task)

SpecConc == Init /\ [][NextConc]_vars

-----------------------------------------------------------------------------
(* The deadline of the text-generation call.  Settings.ai_timeout (30        *)
(* seconds, config.py) is read by nothing: _generate_interruption_response   *)
(* awaits ai_service.generate_text, which awaits chat.completions.create,    *)
(* with no timeout argument and no asyncio.wait_for around either await.     *)

\* the deadline of the call a digression turn waits on goes by with no
\* answer: the coroutine stays suspended on the same await
DeadlinePasses(task) ==
    /\ task.pc = "llm"
    /\ tasks' = Resume(task, SetToBag({[task EXCEPT !.pc = "overdue"]}))
    /\ UNCHANGED <<connection_vars, local_cache, state_manager, heap, swiggy_steps, workflow_states, interruptions, last>>

NextDeadline ==
    \/ NextConc
    \/ \E task \in BagToSet(tasks) : DeadlinePasses(task)

SpecDeadline == Init /\ [][NextDeadline]_vars

-----------------------------------------------------------------------------
(* Edits of the step catalog after construction.  swiggy_steps is a plain   *)
(* attribute holding a plain list: it can be changed in place, or replaced  *)
(* by another list.                                                          *)

\* the text an edit puts into the catalog
EditedStep == "Open the Swiggy app and sign in"

\* the entries an edit is tried on: the first and the last
EditPositions == {1, Len(InitialSteps)}

\* edits made so far
Mutations ==
    swiggy_steps
    + Cardinality({p \in ListIds \X (1..Len(InitialSteps)) :
                       /\ p[2] <= Len(heap[p[1]])
                       /\ heap[p[1]][p[2]] = EditedStep})

\* agent.swiggy_steps[j - 1] = EditedStep
SetStep(j) ==
    /\ Mutations < MaxMutations
    /\ heap' = [heap EXCEPT ![swiggy_steps][j] = EditedStep]
    /\ UNCHANGED <<connection_vars, local_cache, state_manager, swiggy_steps, workflow_states, interruptions, tasks, last>>

\* agent.swiggy_steps = <a new list, the old one with entry j - 1 replaced>
ReplaceCatalog(j) ==
    /\ Mutations < MaxMutations
    /\ swiggy_steps + 1 \in ListIds
    /\ heap' = [heap EXCEPT ![swiggy_steps + 1] =
                    [heap[swiggy_steps] EXCEPT ![j] = EditedStep]]
    /\ swiggy_steps' = swiggy_steps + 1
    /\ UNCHANGED <<connection_vars, local_cache, state_manager, workflow_states, interruptions, tasks, last>>

NextCatalog ==
    \/ Next
    \/ \E j \in EditPositions : SetStep(j)
    \/ \E j \in EditPositions : ReplaceCatalog(j)

SpecCatalog == Init /\ [][NextCatalog]_vars

-----------------------------------------------------------------------------
(* Faults: a store that cannot be reached, and a stored state without steps  *)
(* (the stores are shared objects; the tests of the repository build states  *)
(* with workflow_steps=None and status "idle").                              *)

\* a state as built in test_redis_workflow.py: no steps yet
foreign_state(session_id) ==
    [ session_id |-> session_id,
      user_input |-> "I want to order food from Swiggy",
      workflow_type |-> None,
      workflow_steps |-> None,
      current_step_index |-> 0,
      workflow_status |-> "idle",
      waiting_for_verification |-> FALSE,
      workflow_context |-> <<>>,
      interruption_handled |-> FALSE ]

\* save_workflow_state(session_id, state) called with such a state
SaveForeignState(session_id) ==
    /\ workflow_states' = save_workflow_state(state_manager, workflow_states, session_id,
                                              foreign_state(session_id), heap)
    /\ last' = Returned("save_workflow_state", session_id, "-", TRUE)
    /\ UNCHANGED <<connection_vars, local_cache, state_manager, heap, swiggy_steps, interruptions, tasks>>

\* a state whose index is past its last step; save_workflow_state stores any
\* dict it is given and load_workflow_state returns it as stored
out_of_range_state(session_id) ==
    [ session_id |-> session_id,
      user_input |-> "I want to order food from Swiggy",
      workflow_type |-> "swiggy_order_food",
      workflow_steps |-> [val |-> InitialSteps],
      current_step_index |-> Len(InitialSteps),
      workflow_status |-> "active",
      waiting_for_verification |-> TRUE,
      workflow_context |-> <<>>,
      interruption_handled |-> FALSE ]

\* save_workflow_state(session_id, state) called with such a state by
\* another writer of the store
SaveOutOfRangeState(session_id) ==
    /\ workflow_states' = save_workflow_state(state_manager, workflow_states, session_id,
                                              out_of_range_state(session_id), heap)
    /\ last' = Returned("save_workflow_state", session_id, "-", TRUE)
    /\ UNCHANGED <<connection_vars, local_cache, state_manager, heap, swiggy_steps, interruptions, tasks>>

\* an interruption dict that already says escalated: True
escalated_interruption_data ==
    [ type |-> "workflow_interruption",
      user_input |-> "how do I search for a restaurant?",
      workflow_type |-> "swiggy_order_food",
      current_step_index |-> 0,
      current_step |-> InitialSteps[1],
      total_steps |-> Len(InitialSteps),
      workflow_status |-> "active",
      escalated |-> TRUE ]

\* save_interruption(session_id, interruption_data) called with such a dict
SaveEscalatedInterruption(session_id) ==
    /\ interruptions' = save_interruption(state_manager, interruptions, session_id,
                                          escalated_interruption_data)
    /\ last' = Returned("save_interruption", session_id, "-", TRUE)
    /\ UNCHANGED <<connection_vars, local_cache, state_manager, heap, swiggy_steps,
                   workflow_states, tasks>>

\* which commands of a turn fail because Redis cannot be reached
StoreFaults == {"read", "write", "both"}

\* process_request on WorkflowStateManager while Redis cannot be reached:
\* load_workflow_state catches the exception of GET and returns None, the
\* methods that write catch theirs and return False, which the agent does
\* not look at
ProcessRequestStoreDown(session_id, user_input, outcome, down) ==
    /\ state_manager = "WorkflowStateManager"
    /\ LET existing_state ==
               IF down \in {"read", "both"} THEN None
               ELSE load_workflow_state(state_manager, workflow_states, session_id)
           eff == process_loaded(session_id, user_input, existing_state, swiggy_steps, heap)
           after ==
               IF down \in {"write", "both"}
               THEN [ws |-> workflow_states, its |-> interruptions]
               ELSE apply_effect(state_manager, workflow_states, interruptions,
                                 session_id, eff, heap)
       IN  /\ workflow_states' = after.ws
           /\ interruptions' = after.its
           /\ last' = Returned("process_request", session_id, user_input,
                          turn_reply(session_id, eff, outcome))
    /\ UNCHANGED <<connection_vars, local_cache, state_manager, heap, swiggy_steps, tasks>>

NextFaults ==
    \/ Next
    \/ \E session_id \in Sessions : SaveForeignState(session_id)
    \/ \E session_id \in Sessions : SaveOutOfRangeState(session_id)
    \/ \E session_id \in Sessions : SaveEscalatedInterruption(session_id)
    \/ \E session_id \in Sessions, user_input \in Inputs, outcome \in LlmOutcomes,
          down \in StoreFaults :
           ProcessRequestStoreDown(session_id, user_input, outcome, down)

SpecFaults == Init /\ [][NextFaults]_vars

-----------------------------------------------------------------------------
(* Several sessions on one store *)

AllSessions == {"s1", "s2"}

\* the texts of the turns of these sessions
SessionInputs ==
    { "I want to order food from Swiggy", "done", "how do I search for a restaurant?" }

\* the lock a store method takes for a call about session_id:
\* InMemoryStateManager has one asyncio.Lock, made in __init__ and taken by
\* every method; WorkflowStateManager takes none
lock_for(mgr, session_id) ==
    IF mgr = "InMemoryStateManager" THEN "InMemoryStateManager._lock" ELSE "no lock"

\* get_workflow_sessions listing the session of every key of the store
get_workflow_sessions_all_keys(mgr, ws, its) == (DOMAIN ws) \cup (DOMAIN its)

\* get_workflow_sessions: the keys of the dict of workflow states; on
\* WorkflowStateManager the keys of Redis matching "workflow:*" with the
\* prefix taken off (session ids are taken not to hold the text "workflow:").
\* The list holds every session once; its order is left out.
get_workflow_sessions(mgr, ws, its) ==
    IF mgr = "InMemoryStateManager" THEN DOMAIN ws
    ELSE LET keys == {<<"workflow:", session_id>> : session_id \in DOMAIN ws}
                     \cup {<<"interruption:", session_id>> : session_id \in DOMAIN its}
         IN  {key[2] : key \in {k \in keys : k[1] = "workflow:"}}

\* GET /workflow/sessions
GetActiveWorkflowSessions ==
    /\ last' = Returned("get_active_workflow_sessions", "-", "-",
                  get_workflow_sessions(state_manager, workflow_states, interruptions))
    /\ UNCHANGED <<connection_vars, local_cache, state_manager, heap, swiggy_steps, workflow_states, interruptions, tasks>>

NextSessions ==
    \/ \E session_id \in AllSessions, user_input \in SessionInputs, outcome \in LlmOutcomes :
           ProcessRequest(session_id, user_input, outcome)
    \/ \E session_id \in AllSessions : ClearWorkflowState(session_id)
    \/ \E session_id \in AllSessions : MarkInterruptionEscalated(session_id)
    \/ GetActiveWorkflowSessions

SpecSessions == Init /\ [][NextSessions]_vars

-----------------------------------------------------------------------------
(* Time.  Redis removes a key when its time to live is over; the dicts of   *)
(* InMemoryStateManager keep their entries.                                  *)

\* the lengths of the pauses between calls, in seconds
Durations == {300, 3600}

\* a Redis keyspace after seconds without a write
expire(store, seconds) ==
    LET live == {key \in DOMAIN store : store[key].ttl > seconds}
    IN  [key \in live |-> [store[key] EXCEPT !.ttl = @ - seconds]]

\* no call is made for seconds
Sleep(seconds) ==
    /\ IF state_manager = "WorkflowStateManager"
       THEN /\ workflow_states' = expire(workflow_states, seconds)
            /\ interruptions' = expire(interruptions, seconds)
       ELSE UNCHANGED <<workflow_states, interruptions>>
    /\ last' = Returned("sleep", "-", "-", seconds)
    /\ UNCHANGED <<connection_vars, local_cache, state_manager, heap, swiggy_steps, tasks>>

NextTime ==
    \/ Next
    \/ \E seconds \in Durations : Sleep(seconds)

SpecTime == Init /\ [][NextTime]_vars

-----------------------------------------------------------------------------
(* WebSocket connections (app/websocket/connection_manager.py).  The        *)
(* endpoint /ws/{session_id} calls connect with a WebSocket object of its   *)
(* own and disconnect when the socket closes or fails.                      *)

\* WebSocket objects: one per call of the endpoint
WebSockets == {"w1", "w2", "w3"}

\* whether websocket.send_text returned or raised
SendOutcomes == {"sent", "failed"}

\* the three fields of the manager
Connections(active, to_session, heartbeat) ==
    [active_connections |-> active, connection_to_session |-> to_session,
     heartbeat_connections |-> heartbeat]

\* ConnectionManager.disconnect: the fields afterwards, and the exception
\* when `del self.active_connections[session_id]` finds no such key (the
\* statement raises before anything is removed)
disconnect(active, to_session, heartbeat, websocket) ==
    IF websocket \notin DOMAIN to_session
    THEN [fields |-> Connections(active, to_session, heartbeat), raised |-> "nothing"]
    ELSE LET session_id == to_session[websocket]
         IN  IF session_id \notin DOMAIN active
             THEN [fields |-> Connections(active, to_session, heartbeat),
                   raised |-> "KeyError"]
             ELSE [fields |-> Connections(Del(active, session_id),
                                          Del(to_session, websocket),
                                          heartbeat \ {websocket}),
                   raised |-> "nothing"]

\* ConnectionManager.send_message once send_text has returned or raised
send_message(active, to_session, heartbeat, session_id, outcome) ==
    IF session_id \in DOMAIN active /\ outcome = "failed"
    THEN disconnect(active, to_session, heartbeat, active[session_id])
    ELSE [fields |-> Connections(active, to_session, heartbeat), raised |-> "nothing"]

\* the record of a ConnectionManager call that has returned or raised
ConnectionCall(op, session_id, websocket, done) ==
    Returned(op, session_id, "-", [websocket |-> websocket, raised |-> done.raised])

\* ConnectionManager.connect, for a WebSocket the endpoint has just been
\* given, with the sending of the welcome message
Connect(websocket, session_id, outcome) ==
    /\ websocket \notin DOMAIN connection_to_session
    /\ LET done == send_message(Put(active_connections, session_id, websocket),
                                Put(connection_to_session, websocket, session_id),
                                heartbeat_connections \cup {websocket},
                                session_id, outcome)
       IN  /\ active_connections' = done.fields.active_connections
           /\ connection_to_session' = done.fields.connection_to_session
           /\ heartbeat_connections' = done.fields.heartbeat_connections
           /\ last' = ConnectionCall("connect", session_id, websocket, done)
    /\ UNCHANGED <<local_cache, state_manager, heap, swiggy_steps, workflow_states,
                   interruptions, tasks>>

\* the endpoint calls disconnect(websocket) when its socket closes or fails
Disconnect(websocket) ==
    /\ LET done == disconnect(active_connections, connection_to_session,
                              heartbeat_connections, websocket)
       IN  /\ active_connections' = done.fields.active_connections
           /\ connection_to_session' = done.fields.connection_to_session
           /\ heartbeat_connections' = done.fields.heartbeat_connections
           /\ last' = ConnectionCall("disconnect", "-", websocket, done)
    /\ UNCHANGED <<local_cache, state_manager, heap, swiggy_steps, workflow_states,
                   interruptions, tasks>>

\* send_message(session_id, message) called by a service
SendMessage(session_id, outcome) ==
    /\ LET done == send_message(active_connections, connection_to_session,
                                heartbeat_connections, session_id, outcome)
       IN  /\ active_connections' = done.fields.active_connections
           /\ connection_to_session' = done.fields.connection_to_session
           /\ heartbeat_connections' = done.fields.heartbeat_connections
           /\ last' = ConnectionCall("send_message", session_id, "-", done)
    /\ UNCHANGED <<local_cache, state_manager, heap, swiggy_steps, workflow_states,
                   interruptions, tasks>>

NextConnections ==
    \/ \E websocket \in WebSockets, session_id \in AllSessions, outcome \in SendOutcomes :
           Connect(websocket, session_id, outcome)
    \/ \E websocket \in WebSockets : Disconnect(websocket)
    \/ \E session_id \in AllSessions, outcome \in SendOutcomes :
           SendMessage(session_id, outcome)

SpecConnections == Init /\ [][NextConnections]_vars

-----------------------------------------------------------------------------
(* The local cache of CacheManager (app/services/performance_optimizer.py). *)
(* A Python dict keeps its keys in the order of their first insertion;      *)
(* local_cache is that list of keys.  The cached values and cache_stats     *)
(* decide no branch and are left out.  The Redis cache behind it (db 1,     *)
(* entries with a time to live) answers a GET with nothing, with JSON or    *)
(* with a text that is no JSON.                                             *)

\* cache keys: four more than the cache holds
CacheKeys == 1 .. (max_local_cache_size + 4)

\* what Redis answers to a GET
RedisReplies == {"nil", "json", "not json"}

\* the keys of a dict
KeysOf(cache) == {cache[i] : i \in 1 .. Len(cache)}

\* _set_local_cache that never evicts
set_local_cache_no_eviction(cache, key) ==
    IF key \in KeysOf(cache) THEN cache ELSE Append(cache, key)

\* CacheManager._set_local_cache: the keys afterwards.  A full cache first
\* loses its max_local_cache_size // 10 oldest keys; a key already present
\* keeps its place
set_local_cache(cache, key) ==
    LET kept == IF Len(cache) >= max_local_cache_size
                THEN SubSeq(cache, (max_local_cache_size \div 10) + 1, Len(cache))
                ELSE cache
    IN  IF key \in KeysOf(kept) THEN kept ELSE Append(kept, key)

\* the keys a call is made with: the oldest and the newest key the cache
\* holds, and a key that was never cached (the one after the largest
\* cached, while the keys last)
KeysToTry(cache) ==
    LET largest == CHOOSE k \in KeysOf(cache) : \A other \in KeysOf(cache) : other <= k
    IN  IF cache = <<>> THEN {1}
        ELSE {cache[1], cache[Len(cache)]} \cup ({largest + 1} \cap CacheKeys)

\* CacheManager.set: the local cache is written first; stored says whether
\* the SETEX on Redis went through (set returns False when it raised)
CacheSet(key, stored) ==
    /\ key \in KeysToTry(local_cache)
    /\ local_cache' = set_local_cache(local_cache, key)
    /\ last' = Returned("cache_set", "-", "-", [key |-> key, returned |-> stored])
    /\ UNCHANGED <<connection_vars, state_manager, heap, swiggy_steps, workflow_states,
                   interruptions, tasks>>

\* CacheManager.get: a key of the local cache is answered from it; otherwise
\* Redis is asked and a JSON answer is put into the local cache
CacheGet(key, reply) ==
    /\ key \in KeysToTry(local_cache)
    /\ IF key \in KeysOf(local_cache)
       THEN /\ local_cache' = local_cache
            /\ last' = Returned("cache_get", "-", "-", [key |-> key, returned |-> "value"])
       ELSE IF reply = "json"
       THEN /\ local_cache' = set_local_cache(local_cache, key)
            /\ last' = Returned("cache_get", "-", "-", [key |-> key, returned |-> "value"])
       ELSE /\ local_cache' = local_cache
            /\ last' = Returned("cache_get", "-", "-", [key |-> key, returned |-> "None"])
    /\ UNCHANGED <<connection_vars, state_manager, heap, swiggy_steps, workflow_states,
                   interruptions, tasks>>

NextCache ==
    \/ \E key \in CacheKeys, stored \in BOOLEAN : CacheSet(key, stored)
    \/ \E key \in CacheKeys, reply \in RedisReplies : CacheGet(key, reply)

SpecCache == Init /\ [][NextCache]_vars

-----------------------------------------------------------------------------
(* Properties *)

\* this step is the return of process_request(s, u), in a run where calls
\* are made one after the other
Turned(s, u) ==
    /\ last'.op = "process_request"
    /\ last'.session_id = s
    /\ last'.user_input = u
    /\ tasks' = tasks
    /\ heap' = heap
    /\ swiggy_steps' = swiggy_steps

\* what get_workflow_state answers for s in the state this step leads to
StoredAfter(s) == load_workflow_state(state_manager, workflow_states', s)

\* the instruction reply announcing entry k (counted from 1) of steps
Instruction(s, k, steps) ==
    AssistantResponse(s, "instruction", StepContent(k, Len(steps), steps[k]))

\* C1: in a session with no stored workflow state, a turn whose text holds a
\* task-trigger phrase stores a state at step index 0, active, carrying the
\* whole catalog, and replies "Step 1 of N: <first step>".
C1_NewTaskStartsAtStepZero ==
    [][\A s \in Sessions, u \in Inputs :
          (Turned(s, u) /\ s \notin DOMAIN workflow_states /\ Requests[u])
          => /\ StoredAfter(s) # None
             /\ StoredAfter(s).current_step_index = 0
             /\ StoredAfter(s).workflow_status = "active"
             /\ StepsOf(StoredAfter(s), heap) = heap[swiggy_steps]
             /\ last'.result = Instruction(s, 1, heap[swiggy_steps])]_vars

\* "how do I order food" starts a workflow only when none is stored, so this
\* is the state right after such a start
C1_Witness ==
    /\ last.op = "process_request"
    /\ last.user_input = "how do I order food"
    /\ last.result.content.form = "step"
    /\ last.session_id \in DOMAIN workflow_states
    /\ workflow_states[last.session_id].current_step_index = 0

\* C2: with a state stored at index i and i+1 < len(steps), a confirming turn
\* leaves the state at index i+1 exactly and replies with the instruction of
\* step i+1.
C2_ConfirmationAdvancesByOne ==
    [][\A s \in Sessions, u \in Inputs :
          (/\ Turned(s, u)
           /\ s \in DOMAIN workflow_states
           /\ Verifies[u]
           /\ workflow_states[s].current_step_index + 1
                  < Len(StepsOf(workflow_states[s], heap)))
          => /\ StoredAfter(s) # None
             /\ StoredAfter(s).current_step_index
                    = workflow_states[s].current_step_index + 1
             /\ last'.result =
                    Instruction(s, workflow_states[s].current_step_index + 2,
                                StepsOf(workflow_states[s], heap))]_vars

\* a confirmation has just moved the session to its third step
C2_Witness ==
    /\ last.op = "process_request"
    /\ last.user_input = "done"
    /\ last.result.content.form = "step"
    /\ last.result.content.k = 3
    /\ workflow_states[last.session_id].current_step_index = 2

\* C3: with a state stored at the last index, a confirming turn deletes the
\* state (get_workflow_state answers absent afterwards) and replies with the
\* completion message.
C3_LastConfirmationDeletes ==
    [][\A s \in Sessions, u \in Inputs :
          (/\ Turned(s, u)
           /\ s \in DOMAIN workflow_states
           /\ Verifies[u]
           /\ workflow_states[s].current_step_index
                  = Len(StepsOf(workflow_states[s], heap)) - 1)
          => /\ StoredAfter(s) = None
             /\ workflow_state_view(StoredAfter(s), heap) = None
             /\ last'.result = AssistantResponse(s, "instruction", CompletionContent)]_vars

\* the completion message has just been returned and the state is gone
C3_Witness ==
    /\ last.op = "process_request"
    /\ last.result.content = CompletionContent
    /\ last.session_id \notin DOMAIN workflow_states

\* the texts that hold one of the confirmation tokens
HoldsConfirmationToken ==
    [u \in Inputs |->
        \E token \in verification_responses : Contains(lower(Chars[u]), token)]

\* C5: with a state stored, a text that holds both a confirmation token and
\* a digression marker is handled as a confirmation: the step advances or
\* the workflow completes, and no interruption is written.
C5_ConfirmationBeatsDigression ==
    [][\A s \in Sessions, u \in Inputs :
          (/\ Turned(s, u)
           /\ s \in DOMAIN workflow_states
           /\ HoldsConfirmationToken[u]
           /\ Asks[u])
          => /\ interruptions' = interruptions
             /\ IF workflow_states[s].current_step_index + 1
                       < Len(StepsOf(workflow_states[s], heap))
                THEN /\ StoredAfter(s) # None
                     /\ StoredAfter(s).current_step_index
                            = workflow_states[s].current_step_index + 1
                     /\ last'.result.content.form = "step"
                ELSE /\ StoredAfter(s) = None
                     /\ last'.result.content = CompletionContent]_vars

\* "ok, how do I do this?" has just advanced a workflow
C5_Witness ==
    /\ last.op = "process_request"
    /\ last.user_input = "ok, how do I do this?"
    /\ last.result.content.form = "step"
    /\ last.result.content.k > 1

Marked(s) ==
    /\ last'.op = "mark_interruption_escalated"
    /\ last'.session_id = s
    /\ tasks' = tasks
    /\ heap' = heap

\* C7: acknowledging consumes once.  With a pending record the call returns
\* true; right after a call that returned true the record is absent and
\* another call returns false.
C7_AcknowledgeConsumesOnce ==
    /\ [](\A s \in Sessions :
            (/\ last.op = "mark_interruption_escalated"
             /\ last.session_id = s
             /\ last.result = TRUE)
            => /\ get_interruption(interruptions, s) = None
               /\ mark_escalated(state_manager, interruptions, s).result = FALSE)
    /\ [][\A s \in Sessions :
            (Marked(s) /\ get_interruption(interruptions, s) # None)
            => last'.result = TRUE]_vars

\* an acknowledge has just returned true
C7_Witness ==
    /\ last.op = "mark_interruption_escalated"
    /\ last.result = TRUE
    /\ last.session_id \notin DOMAIN interruptions

\* C10, as claimed: with a state stored, a turn whose text holds a
\* task-trigger phrase and no confirmation token restarts the workflow: the
\* stored state and the reply are those the same text gets with no state.
C10_NewTaskRestarts ==
    [][\A s \in Sessions, u \in Inputs :
          (/\ Turned(s, u)
           /\ s \in DOMAIN workflow_states
           /\ Requests[u]
           /\ ~Verifies[u])
          => /\ StoredAfter(s) # None
             /\ StoredAfter(s).current_step_index = 0
             /\ StoredAfter(s).user_input = u
             /\ StoredAfter(s).workflow_context = <<>>
             /\ last'.result = Instruction(s, 1, heap[swiggy_steps])]_vars

\* C9, as claimed: an edit of the catalog changes the steps of no stored
\* workflow state.
C9_StepsAreSnapshot ==
    [][(heap' # heap \/ swiggy_steps' # swiggy_steps)
          => \A s \in DOMAIN workflow_states :
                 workflow_state_view(StoredAfter(s), heap').workflow_steps
                     = workflow_state_view(
                           load_workflow_state(state_manager, workflow_states, s),
                           heap).workflow_steps]_vars

\* this step is the write of a confirming turn of session s
ConfirmationWrites(s) ==
    \/ \E task \in BagToSet(tasks) :
           /\ task.pc = "loaded"
           /\ task.session_id = s
           /\ Verifies[task.user_input]
           /\ tasks' = Resume(task, EmptyBag)
    \/ /\ tasks' = tasks
       /\ last'.op = "process_request"
       /\ last'.session_id = s
       /\ Verifies[last'.user_input]

MarkReturns(s) ==
    \/ \E task \in BagToSet(tasks) :
           /\ task.pc = "marking"
           /\ task.session_id = s
           /\ tasks' = Resume(task, EmptyBag)
    \/ /\ tasks' = tasks
       /\ last'.op = "mark_interruption_escalated"
       /\ last'.session_id = s

\* C8: among acknowledge calls in flight together, a call returns true
\* exactly when it is the one that removed the record, and a call that
\* returns false removes nothing; so of two calls made for one pending
\* record one returns true and the other false.
C8_OneAcknowledgeWins ==
    [][\A s \in Sessions :
          MarkReturns(s)
          => /\ last'.op = "mark_interruption_escalated"
             /\ last'.result = (s \in DOMAIN interruptions /\ s \notin DOMAIN interruptions')
             /\ (~last'.result => interruptions' = interruptions)]_vars

\* two calls read the same record; one has returned true and the other has
\* still to send its DELETE
C8_Witness ==
    /\ last.op = "mark_interruption_escalated"
    /\ last.result = TRUE
    /\ last.session_id \notin DOMAIN interruptions
    /\ \E task \in BagToSet(tasks) :
           task.pc = "marking" /\ task.session_id = last.session_id

\* C11: with a state stored, a digression turn whose call of the language
\* model raises returns an instruction reply (not an error) whose text is the
\* template naming the number and the text of the current step, and leaves
\* the workflow state as it was.
C11_GenerationFailureFallsBack ==
    [][\A s \in Sessions, u \in Inputs :
          (/\ last'.op = "process_request"
           /\ ProcessRequest(s, u, "raise")
           /\ s \in DOMAIN workflow_states
           /\ ~Verifies[u]
           /\ Asks[u])
          => LET state == load_workflow_state(state_manager, workflow_states, s)
                 i == state.current_step_index
             IN  /\ last'.result.response_type = "instruction"
                 /\ last'.result.content
                        = FallbackContent(u, i + 1, StepsOf(state, heap)[i + 1])
                 /\ workflow_states' = workflow_states]_vars

\* the template has just been returned for a question asked on the second step
C11_Witness ==
    /\ last.op = "process_request"
    /\ last.user_input = "how do I search for a restaurant?"
    /\ last.result.response_type = "instruction"
    /\ last.result.content.form = "fallback"
    /\ last.result.content.k = 2
    /\ last.session_id \in DOMAIN workflow_states
    /\ workflow_states[last.session_id].current_step_index = 1

\* C12: process_request always returns a reply; whenever its handler raises
\* (here: TypeError on a stored state without steps) the reply is the error
\* reply, also while the store cannot be reached.
C12_FaultsBecomeErrorReplies ==
    [][\A s \in Sessions, u \in Inputs :
          (last'.op = "process_request" /\ last'.session_id = s /\ last'.user_input = u)
          =>
          /\ (\E o \in LlmOutcomes : ProcessRequest(s, u, o))
              => LET eff == process_loaded(s, u,
                                load_workflow_state(state_manager, workflow_states, s),
                                swiggy_steps, heap)
                 IN  /\ "response_type" \in DOMAIN last'.result
                     /\ IsRaised(eff.reply)
                            => last'.result = AssistantResponse(s, "error",
                                                  ErrorContent(eff.reply.raised))
          /\ (\E o \in LlmOutcomes, d \in StoreFaults : ProcessRequestStoreDown(s, u, o, d))
              => "response_type" \in DOMAIN last'.result]_vars

\* a confirmation met a stored state without steps and got the error reply
C12_Witness ==
    /\ last.op = "process_request"
    /\ last.user_input = "done"
    /\ last.result.response_type = "error"
    /\ last.result.content = ErrorContent("TypeError")
    /\ last.session_id \in DOMAIN workflow_states

C15_PeekChangesNothing ==
    [][\A s \in Sessions :
          (last'.op = "get_interruption" /\ last'.session_id = s)
          => /\ workflow_states' = workflow_states
             /\ interruptions' = interruptions
             /\ last'.result = get_interruption(interruptions, s)
             /\ get_interruption(interruptions, s) # None
                   => LET first == mark_escalated(state_manager, interruptions', s)
                          second == mark_escalated(state_manager, first.store, s)
                      IN  /\ get_interruption(interruptions', s) = last'.result
                          /\ first.result = TRUE
                          /\ second.result = FALSE]_vars

\* a pending record has just been returned by get_interruption
C15_Witness ==
    /\ last.op = "get_interruption"
    /\ last.result # None
    /\ last.session_id \in DOMAIN interruptions
    /\ last.result.user_input = interruptions[last.session_id].user_input

\* C17: a workflow starts at index 0; each confirmation below the last index
\* raises the index by one and keeps the state; digressions and unrecognized
\* texts leave the state as it is; the confirmation on the last index (the
\* N-th) removes the state and returns the completion message.  So the index
\* counts the confirmations and the state is gone exactly at the N-th.
C17_AbsentExactlyAtLastConfirmation ==
    /\ [](\A s \in DOMAIN workflow_states :
             LET state == load_workflow_state(state_manager, workflow_states, s)
             IN  /\ state.current_step_index >= 0
                 /\ state.current_step_index < Len(StepsOf(state, heap)))
    /\ [][\A s \in Sessions, u \in Inputs :
            Turned(s, u)
            => IF s \notin DOMAIN workflow_states
               THEN StoredAfter(s) # None => StoredAfter(s).current_step_index = 0
               ELSE LET state == load_workflow_state(state_manager, workflow_states, s)
                        i == state.current_step_index
                        N == Len(StepsOf(state, heap))
                    IN  IF Verifies[u]
                        THEN IF i + 1 < N
                             THEN /\ StoredAfter(s) # None
                                  /\ StoredAfter(s).current_step_index = i + 1
                                  /\ last'.result.content # CompletionContent
                             ELSE /\ StoredAfter(s) = None
                                  /\ last'.result
                                         = AssistantResponse(s, "instruction", CompletionContent)
                        ELSE IF Interrupts[u] \/ ~Requests[u]
                        THEN /\ workflow_states' = workflow_states
                             /\ last'.result.content # CompletionContent
                        ELSE StoredAfter(s).current_step_index = 0]_vars

\* seven confirmations have been made: the state is on the last index
C17_Witness ==
    /\ last.op = "process_request"
    /\ last.user_input = "done"
    /\ last.session_id \in DOMAIN workflow_states
    /\ workflow_states[last.session_id].current_step_index = Len(InitialSteps) - 1
    /\ last.result.content.form = "step"
    /\ last.result.content.k = Len(InitialSteps)

\* C19: clear_workflow_state returns true exactly when a state was stored;
\* afterwards get_workflow_state answers absent, another clear returns false,
\* and a new-task text starts a workflow at step 0.
C19_ClearRemovesState ==
    [][\A s \in Sessions :
          (last'.op = "clear_workflow_state" /\ last'.session_id = s)
          => /\ last'.result
                    = (load_workflow_state(state_manager, workflow_states, s) # None)
             /\ StoredAfter(s) = None
             /\ workflow_state_view(StoredAfter(s), heap) = None
             /\ delete_workflow_state(workflow_states', s).result = FALSE
             /\ \A u \in Inputs :
                    Requests[u]
                    => LET eff == process_loaded(s, u, StoredAfter(s), swiggy_steps, heap)
                       IN  /\ eff.write = "save"
                           /\ eff.state.current_step_index = 0
                           /\ eff.reply = Instruction(s, 1, heap[swiggy_steps])]_vars

\* a clear has just removed a stored state
C19_Witness ==
    /\ last.op = "clear_workflow_state"
    /\ last.result = TRUE
    /\ last.session_id \notin DOMAIN workflow_states

C20_ListIsStoredSessions ==
    [][LET listed == get_workflow_sessions(state_manager, workflow_states', interruptions')
       IN  /\ last'.op = "get_active_workflow_sessions"
               => last'.result
                     = {s \in AllSessions :
                           load_workflow_state(state_manager, workflow_states', s) # None}
           /\ \A s \in AllSessions :
                  /\ (/\ last'.op = "process_request"
                      /\ last'.session_id = s
                      /\ last'.result.content.form = "step")
                     => s \in listed
                  /\ (/\ last'.op = "process_request"
                      /\ last'.session_id = s
                      /\ last'.result.content = CompletionContent)
                     => s \notin listed
                  /\ (last'.op = "clear_workflow_state" /\ last'.session_id = s)
                     => s \notin listed]_vars

\* the list has just been returned while one session has a workflow and the
\* other has none left but still has a pending interruption
C20_Witness ==
    /\ last.op = "get_active_workflow_sessions"
    /\ last.result = {"s2"}
    /\ DOMAIN workflow_states = {"s2"}
    /\ "s1" \in DOMAIN interruptions

\* C18, as claimed: an entry that is not written for its time to live is
\* gone: after an hour without a call no workflow state is stored, and after
\* five minutes without a call no interruption record is.
C18_UnwrittenEntriesExpire ==
    [][\A seconds \in Durations :
          Sleep(seconds)
          => /\ seconds >= workflow_timeout => DOMAIN workflow_states' = {}
             /\ seconds >= interruption_timeout => DOMAIN interruptions' = {}]_vars

\* C21, as claimed: with a state stored, a text that holds no confirmation
\* token but both a task-trigger phrase and a digression marker is taken as
\* a new-task request: the workflow restarts at step 0 and the turn is not
\* handled as a digression (no interruption record, no answer to a question).
C21_NewTaskBeatsDigression ==
    [][\A s \in Sessions, u \in Inputs :
          (/\ Turned(s, u)
           /\ s \in DOMAIN workflow_states
           /\ ~Verifies[u]
           /\ Requests[u]
           /\ Asks[u])
          => /\ interruptions' = interruptions
             /\ last'.result.content.form = "step"
             /\ last'.result.content.k = 1
             /\ StoredAfter(s) # None
             /\ StoredAfter(s).current_step_index = 0]_vars

\* C28: with no state stored, a turn whose text holds no task-trigger phrase
\* stores no workflow state and no interruption record and returns the
\* "how to start" guidance as an instruction reply.
C28_NoTaskNoState ==
    [][\A s \in Sessions, u \in Inputs :
          (/\ Turned(s, u)
           /\ s \notin DOMAIN workflow_states
           /\ ~Requests[u])
          => /\ workflow_states' = workflow_states
             /\ interruptions' = interruptions
             /\ StoredAfter(s) = None
             /\ last'.result = AssistantResponse(s, "instruction", StartGuidance)]_vars

\* a question asked outside any workflow got the "how to start" guidance
C28_Witness ==
    /\ last.op = "process_request"
    /\ last.user_input = "how do I search for a restaurant?"
    /\ last.result = AssistantResponse(last.session_id, "instruction", StartGuidance)
    /\ last.session_id \notin DOMAIN workflow_states
    /\ last.session_id \notin DOMAIN interruptions

\* C29: with a state stored, a turn whose text is no confirmation, no
\* digression and no new-task request leaves both stores as they were and
\* returns the "say done, or ask a question" guidance.
C29_UnrecognizedKeepsState ==
    [][\A s \in Sessions, u \in Inputs :
          (/\ Turned(s, u)
           /\ s \in DOMAIN workflow_states
           /\ ~Verifies[u]
           /\ ~Requests[u]
           /\ ~Asks[u])
          => /\ workflow_states' = workflow_states
             /\ interruptions' = interruptions
             /\ last'.result = AssistantResponse(s, "instruction", DefaultGuidance)]_vars

\* "hello" has just been answered in the middle of a workflow
C29_Witness ==
    /\ last.op = "process_request"
    /\ last.user_input = "hello"
    /\ last.result.content = DefaultGuidance
    /\ last.session_id \in DOMAIN workflow_states
    /\ workflow_states[last.session_id].current_step_index = 2

C23_NoTerminalStateStored ==
    \A s \in DOMAIN workflow_states :
        LET stored == load_workflow_state(state_manager, workflow_states, s)
        IN  /\ stored.workflow_status = "active"
            /\ stored.workflow_status # "completed"
            /\ stored.waiting_for_verification = TRUE
            /\ stored.current_step_index # Len(StepsOf(stored, heap))
            /\ stored.current_step_index < Len(StepsOf(stored, heap))

\* the last confirmation of a workflow has just returned the completion
\* message and nothing is stored for the session
C23_Witness ==
    /\ last.op = "process_request"
    /\ last.user_input = "done"
    /\ last.result.content = CompletionContent
    /\ last.session_id \notin DOMAIN workflow_states
    /\ tasks = EmptyBag

\* the whole records a turn of session s can be writing in this step: what
\* the engine decides from the stored state, or from the state a turn in
\* flight loaded before it waited
WholeRecords(s) ==
    LET loadeds ==
            { load_workflow_state(state_manager, workflow_states, s) }
            \cup { task.loaded : task \in { t \in BagToSet(tasks) :
                                               t.pc = "loaded" /\ t.session_id = s } }
        effs == { process_loaded(s, u, loaded, swiggy_steps, heap) :
                      u \in ConcInputs, loaded \in loadeds }
    IN  { state_data(eff.state, heap) : eff \in { e \in effs : e.write = "save" } }

\* C30: a turn persists its state as one whole record.  Every stored state
\* holds all the fields, and whenever a step changes or creates the stored
\* state of a session the new entry is, field for field, the record of one
\* turn (index together with steps, status and waiting flag); between the
\* read and the write of a turn in flight the store shows no part of it.
C30_WholeRecordWrites ==
    /\ [](\A s \in DOMAIN workflow_states :
            DOMAIN value_of(workflow_states[s]) = StateFields)
    /\ [][\A s \in Sessions :
            (/\ s \in DOMAIN workflow_states'
             /\ (s \notin DOMAIN workflow_states
                    \/ workflow_states'[s] # workflow_states[s]))
            => /\ DOMAIN value_of(workflow_states'[s]) = StateFields
               /\ state_data(StoredAfter(s), heap) \in WholeRecords(s)]_vars

\* a confirming turn has read index 0 and has still to write; meanwhile
\* another turn has advanced the stored state to index 1
C30_Witness ==
    /\ state_manager = "WorkflowStateManager"
    /\ "s1" \in DOMAIN workflow_states
    /\ workflow_states["s1"].current_step_index = 1
    /\ \E task \in BagToSet(tasks) :
           /\ task.pc = "loaded"
           /\ task.user_input = "done"
           /\ task.loaded # None
           /\ task.loaded.current_step_index = 0

Processed(s, u) ==
    /\ last'.op = "process_request"
    /\ last'.session_id = s
    /\ last'.user_input = u
    /\ \E outcome \in LlmOutcomes : ProcessRequest(s, u, outcome)

\* the turn process_request(s, u) of this step went as the rows for a
\* session without workflow say: a new-task text starts at step 0, any other
\* text gets the "how to start" guidance and leaves nothing stored, and no
\* interruption record is written
HandledAsNone(s, u) ==
    /\ last'.result = start_new_workflow(s, u, swiggy_steps, heap).reply
    /\ interruptions' = interruptions
    /\ IF Requests[u]
       THEN /\ StoredAfter(s) # None
            /\ StoredAfter(s).workflow_steps # None
            /\ StoredAfter(s).current_step_index = 0
       ELSE s \notin DOMAIN workflow_states'

\* C25, as claimed: a turn that loads a state whose current_step_index is
\* outside 0..len(steps)-1 discards it and handles the text as a session
\* without workflow; no step instruction or completion message comes from
\* the corrupt state.
C25_OutOfRangeIsNone ==
    [][\A s \in Sessions, u \in Inputs :
          (/\ Processed(s, u)
           /\ s \in DOMAIN workflow_states
           /\ workflow_states[s].workflow_steps # None
           /\ workflow_states[s].current_step_index
                  \notin 0 .. (Len(StepsOf(workflow_states[s], heap)) - 1))
          => /\ last'.result.content # CompletionContent
             /\ HandledAsNone(s, u)]_vars

\* C26, as claimed: a turn that loads a state with None for its steps does
\* not fail (the reply is not of kind "error") and handles the text as a
\* session without workflow.
C26_NoStepsIsNone ==
    [][\A s \in Sessions, u \in Inputs :
          (/\ Processed(s, u)
           /\ s \in DOMAIN workflow_states
           /\ workflow_states[s].workflow_steps = None)
          => /\ last'.result.response_type # "error"
             /\ HandledAsNone(s, u)]_vars

\* C27, as claimed: a digression turn does not wait for the text-generation
\* call past its deadline: when the deadline goes by the turn has returned
\* (the generated answer, or the fallback for its step), so no turn in
\* flight is still suspended on a call whose deadline has passed.
C27_NoWaitPastDeadline ==
    \A task \in BagToSet(tasks) :
        task.op = "process_request" => task.pc # "overdue"

\* C31: a digression turn in a session with a stored state leaves an
\* interruption record carrying the text of the turn and the step index the
\* session had at that turn, with its step text and workflow type; a turn
\* in a session with no stored state writes no interruption record.
C31_RecordCarriesTextAndStep ==
    [][\A s \in Sessions, u \in Inputs :
          /\ (/\ Turned(s, u)
              /\ s \in DOMAIN workflow_states
              /\ ~Verifies[u]
              /\ ~Requests[u]
              /\ Asks[u])
             => LET before == load_workflow_state(state_manager, workflow_states, s)
                    record == get_interruption(interruptions', s)
                IN  /\ record # None
                    /\ record.user_input = u
                    /\ record.current_step_index = before.current_step_index
                    /\ record.current_step
                           = StepsOf(before, heap)[before.current_step_index + 1]
                    /\ record.workflow_type = "swiggy_order_food"
                    /\ record.escalated = FALSE
          /\ (Turned(s, u) /\ s \notin DOMAIN workflow_states)
             => interruptions' = interruptions]_vars

\* a question asked at the third step has left a record with index 2
C31_Witness ==
    /\ last.op = "process_request"
    /\ last.user_input = "how do I search for a restaurant?"
    /\ last.session_id \in DOMAIN workflow_states
    /\ workflow_states[last.session_id].current_step_index = 2
    /\ last.session_id \in DOMAIN interruptions
    /\ interruptions[last.session_id].current_step_index = 2
    /\ interruptions[last.session_id].user_input = last.user_input

\* this step belongs to a digression turn of session s among calls in flight
\* together: the turn starts, sends its write, or returns
DigressionTurnSteps(s) ==
    \/ \E task \in BagToSet(tasks) :
           /\ task.op = "process_request"
           /\ task.session_id = s
           /\ Asks[task.user_input]
           /\ ~Verifies[task.user_input]
           /\ CopiesIn(task, tasks') < CopiesIn(task, tasks)
    \/ \E task \in BagToSet(tasks') :
           /\ task.op = "process_request"
           /\ task.session_id = s
           /\ Asks[task.user_input]
           /\ ~Verifies[task.user_input]
           /\ CopiesIn(task, tasks') > CopiesIn(task, tasks)
    \/ /\ tasks' = tasks
       /\ last' # last
       /\ last'.op = "process_request"
       /\ last'.session_id = s
       /\ Asks[last'.user_input]
       /\ ~Verifies[last'.user_input]

\* C32: no step of a digression turn writes the workflow store.  A
\* digression turn that waited for its text-generation call while a
\* confirmation advanced or completed the workflow therefore returns
\* without overwriting or bringing back the state: what the confirmation
\* wrote stays.
C32_DigressionNeverWritesState ==
    [][\A s \in Sessions :
          DigressionTurnSteps(s) => workflow_states' = workflow_states]_vars

\* a digression turn that began at the first step has returned its fallback
\* after a confirmation moved the session to the second step, which is
\* still what is stored
C32_Witness ==
    /\ last.op = "process_request"
    /\ last.user_input = "how do I search for a restaurant?"
    /\ last.result.content
           = FallbackContent(last.user_input, 1, InitialSteps[1])
    /\ last.session_id \in DOMAIN workflow_states
    /\ workflow_states[last.session_id].current_step_index = 1
    /\ tasks = EmptyBag

\* C33: the interruption record is written before the text-generation call
\* is made: in the step in which a digression turn begins to wait for the
\* language model the session has a pending record carrying the text of the
\* turn, and the step in which the call answers or raises returns the turn
\* and leaves the interruption store as it is.  So the record is there
\* after the turn whether generation succeeded or failed.
C33_RecordBeforeGeneration ==
    [][\A s \in Sessions :
          /\ \A task \in BagToSet(tasks') :
                (/\ task.pc = "llm"
                 /\ task.session_id = s
                 /\ CopiesIn(task, tasks') > CopiesIn(task, tasks))
                => /\ get_interruption(interruptions', s) # None
                   /\ get_interruption(interruptions', s).user_input = task.user_input
          /\ \A task \in BagToSet(tasks) :
                (/\ task.pc = "llm"
                 /\ task.session_id = s
                 /\ CopiesIn(task, tasks') < CopiesIn(task, tasks))
                => /\ interruptions' = interruptions
                   /\ last'.op = "process_request"
                   /\ last'.user_input = task.user_input
                   /\ last'.result.response_type = "instruction"
                   /\ last'.result.content \in {GeneratedContent, task.fallback.content}]_vars

\* a digression turn waits for the language model and its record is
\* already pending
C33_Witness ==
    \E task \in BagToSet(tasks) :
        /\ task.pc = "llm"
        /\ task.session_id \in DOMAIN interruptions
        /\ interruptions[task.session_id].user_input = task.user_input
        /\ interruptions[task.session_id].escalated = FALSE
        /\ last.op # "process_request"

\* C34: completing, restarting or clearing the workflow of a session leaves
\* the interruption store unchanged: a record pending before the last
\* confirmation, the restart or clear_workflow_state is still what
\* get_interruption returns afterwards, also when no workflow state is left.
C34_WorkflowEndKeepsInterruption ==
    [][\A s \in Sessions :
          LET before == load_workflow_state(state_manager, workflow_states, s)
              completes ==
                  /\ last'.op = "process_request"
                  /\ last'.session_id = s
                  /\ before # None
                  /\ Verifies[last'.user_input]
                  /\ before.current_step_index + 1 >= Len(StepsOf(before, heap))
              restarts ==
                  /\ last'.op = "process_request"
                  /\ last'.session_id = s
                  /\ before # None
                  /\ ~Verifies[last'.user_input]
                  /\ ~Asks[last'.user_input]
                  /\ Requests[last'.user_input]
              clears ==
                  /\ last'.op = "clear_workflow_state"
                  /\ last'.session_id = s
          IN  (completes \/ restarts \/ clears)
              => /\ interruptions' = interruptions
                 /\ get_interruption(interruptions', s) = get_interruption(interruptions, s)
                 /\ (completes => s \notin DOMAIN workflow_states')
                 /\ (clears => s \notin DOMAIN workflow_states')]_vars

\* the last confirmation has completed a workflow during which a question
\* was asked: no workflow state is left and the record is still pending
C34_Witness ==
    /\ last.op = "process_request"
    /\ last.result.content = CompletionContent
    /\ last.session_id \notin DOMAIN workflow_states
    /\ get_interruption(interruptions, last.session_id) # None

\* what a store holds under key k, None when it holds nothing
EntryOf(store, k) == IF k \in DOMAIN store THEN store[k] ELSE None

\* C35: sessions are isolated.  A turn, a clear_workflow_state or an
\* acknowledge made for session a leaves the workflow state and the
\* interruption record of every other session b as they were, whatever
\* the order in which the operations of a and b are made.
C35_SessionsAreIsolated ==
    [][\A a \in AllSessions, b \in AllSessions :
          (/\ a # b
           /\ last'.session_id = a
           /\ last'.op \in {"process_request", "clear_workflow_state",
                            "mark_interruption_escalated"})
          => /\ EntryOf(workflow_states', b) = EntryOf(workflow_states, b)
             /\ EntryOf(interruptions', b) = EntryOf(interruptions, b)]_vars

\* s1 has just completed its workflow while s2 is at its second step with
\* a question pending
C35_Witness ==
    /\ last.op = "process_request"
    /\ last.session_id = "s1"
    /\ last.result.content = CompletionContent
    /\ "s1" \notin DOMAIN workflow_states
    /\ "s2" \in DOMAIN workflow_states
    /\ workflow_states["s2"].current_step_index = 1
    /\ "s2" \in DOMAIN interruptions

\* C36: with no state stored only the task-trigger test is applied.  A text
\* with a task-trigger phrase starts a workflow at step 0 and is answered
\* with the first step also when it holds a confirmation token or a
\* digression marker, and no interruption record is written.
C36_OnlyTriggerTestWithoutState ==
    [][\A s \in Sessions, u \in Inputs :
          (/\ Turned(s, u)
           /\ s \notin DOMAIN workflow_states
           /\ Requests[u]
           /\ (Verifies[u] \/ Asks[u]))
          => /\ StoredAfter(s) # None
             /\ StoredAfter(s).current_step_index = 0
             /\ StoredAfter(s).workflow_status = "active"
             /\ last'.result = Instruction(s, 1, StepsOf(StoredAfter(s), heap))
             /\ interruptions' = interruptions]_vars

\* "ok, how do I order food" (confirmation token, digression marker and
\* task trigger) has started a workflow; no question is recorded
C36_Witness ==
    /\ last.op = "process_request"
    /\ last.user_input = "ok, how do I order food"
    /\ Verifies[last.user_input]
    /\ Asks[last.user_input]
    /\ last.result.content.form = "step"
    /\ last.result.content.k = 1
    /\ workflow_states[last.session_id].current_step_index = 0
    /\ last.session_id \notin DOMAIN interruptions

\* C37, as claimed: after any sequence of connect and disconnect calls,
\* also with a second connect for a session that already has a connection,
\* active_connections[s] = w exactly when connection_to_session[w] = s, and
\* a disconnect(w) never raises and removes no entry but w's own.
C37_MapsStayConsistent ==
    /\ [](\A s \in AllSessions, w \in WebSockets :
            (s \in DOMAIN active_connections /\ active_connections[s] = w)
            <=> (w \in DOMAIN connection_to_session /\ connection_to_session[w] = s))
    /\ [][last'.op = "disconnect"
            => /\ last'.result.raised = "nothing"
               /\ \A w \in WebSockets \ {last'.result.websocket} :
                     /\ EntryOf(connection_to_session', w) = EntryOf(connection_to_session, w)
                     /\ \A s \in AllSessions :
                           (s \in DOMAIN active_connections /\ active_connections[s] = w)
                           => (s \in DOMAIN active_connections'
                                 /\ active_connections'[s] = w)]_vars

\* C38: every record in the interruption store has escalated = false
\* (save_interruption sets it whatever the caller passed, an acknowledge
\* deletes the record), so get_interruption returns the record of every
\* session that has one stored.
C38_StoredRecordsAreNotEscalated ==
    \A s \in DOMAIN interruptions :
        /\ interruptions[s].escalated = FALSE
        /\ get_interruption(interruptions, s) # None
        /\ get_interruption(interruptions, s) = value_of(interruptions[s])

\* save_interruption has just stored a dict that came with escalated: True
C38_Witness ==
    /\ last.op = "save_interruption"
    /\ last.session_id \in DOMAIN interruptions
    /\ escalated_interruption_data.escalated = TRUE
    /\ interruptions[last.session_id].user_input = escalated_interruption_data.user_input
    /\ interruptions[last.session_id].escalated = FALSE

\* this step put a key into the local cache: a set, or a get answered by
\* Redis
CacheInsertion ==
    \/ last'.op = "cache_set"
    \/ /\ last'.op = "cache_get"
       /\ last'.result.key \notin KeysOf(local_cache)
       /\ last'.result.key \in KeysOf(local_cache')

\* C39: after any sequence of set and get calls the local cache holds at
\* most max_local_cache_size keys, and an insertion into a full cache first
\* evicts the max_local_cache_size // 10 keys inserted longest ago: the
\* other keys stay in their order and the key inserted is in the cache.
C39_LocalCacheStaysBounded ==
    /\ [](Len(local_cache) <= max_local_cache_size)
    /\ [][(CacheInsertion /\ Len(local_cache) >= max_local_cache_size)
            => LET evicted == max_local_cache_size \div 10
                   remain == Len(local_cache) - evicted
               IN  /\ evicted >= 1
                   /\ Len(local_cache') \in {remain, remain + 1}
                   /\ SubSeq(local_cache', 1, remain)
                          = SubSeq(local_cache, evicted + 1, Len(local_cache))
                   /\ last'.result.key \in KeysOf(local_cache')
                   /\ \A i \in 1 .. evicted :
                         local_cache[i] \in KeysOf(local_cache')
                         => local_cache[i] = last'.result.key]_vars

\* the cache was full, a new key has been set, and the oldest keys are gone
C39_Witness ==
    /\ last.op = "cache_set"
    /\ Len(local_cache) = max_local_cache_size - (max_local_cache_size \div 10) + 1
    /\ local_cache[Len(local_cache)] = last.result.key
    /\ local_cache[1] = (max_local_cache_size \div 10) + 1
    /\ 1 \notin KeysOf(local_cache)

=============================================================================
